---------------------------- MODULE Spec2Model ----------------------------
(***************************************************************************)
(* Model of backend/app.py: the admission estimator (POST /predict), the   *)
(* lookup (GET /college-info) and the helper compute_probability, over a   *)
(* table df that is loaded once when the module is imported.               *)
(*                                                                         *)
(* Representation.                                                         *)
(*  - A string is a sequence of one-character strings, so that strip(),    *)
(*    int() and str.contains() are computed character by character.        *)
(*  - A rank cell of df is [na, v]: na is what pd.isna sees (the value     *)
(*    pd.to_numeric(errors='coerce') left as NaN), v the number otherwise. *)
(*    Rank cells hold whole numbers.                                       *)
(*  - A probability is an exact fraction <<n, d>> with d > 0; the value    *)
(*    exposed in a response is round(prob, 2), kept in hundredths.         *)
(*  - A JSON value is a record tagged by t: "str", "int", "float" (n/d),   *)
(*    "null", or "absent" for a key the object does not have.              *)
(***************************************************************************)
EXTENDS Integers, Sequences, FiniteSets, Bags, TLC

VARIABLES df,        \* the module-level DataFrame: a sequence of rows
          request,   \* the request being served, or [op |-> "idle"]
          response,  \* the response the handler returned for it
          reached    \* the stages of the handler that ran for it

vars == <<df, request, response, reached>>

--------------------------------------------------------------------------
(* Bounds of the model *)

MaxRows == 3        \* rows in the loaded table
MaxTopN == 3        \* largest top_n a request carries as a number
MaxRank == 7        \* largest rank handed to compute_probability directly

--------------------------------------------------------------------------
(* Strings *)

Whitespace == {" "}

RECURSIVE LStrip(_)
LStrip(s) ==
  IF s # <<>> /\ Head(s) \in Whitespace THEN LStrip(Tail(s)) ELSE s

RECURSIVE RStrip(_)
RStrip(s) ==
  IF s # <<>> /\ s[Len(s)] \in Whitespace
    THEN RStrip(SubSeq(s, 1, Len(s) - 1))
    ELSE s

\* str.strip()
Strip(s) == RStrip(LStrip(s))

\* casefolding as re.IGNORECASE does it on the letters of the model
Lower(ch) ==
  CASE ch = "A" -> "a"
    [] ch = "B" -> "b"
    [] ch = "I" -> "i"
    [] ch = "T" -> "t"
    [] OTHER -> ch

--------------------------------------------------------------------------
(* Rank cells and probabilities *)

NaN == [na |-> TRUE, v |-> 0]
Num(x) == [na |-> FALSE, v |-> x]

\* pd.isna
IsNa(cell) == cell.na

Rat(n, d) == <<n, d>>
RatEq(a, b) == a[1] * b[2] = b[1] * a[2]
RatLeq(a, b) == a[1] * b[2] <= b[1] * a[2]
RatLt(a, b) == a[1] * b[2] < b[1] * a[2]
RatMin(a, b) == IF RatLt(b, a) THEN b ELSE a   \* Python min(a, b)
RatMax(a, b) == IF RatLt(a, b) THEN b ELSE a   \* Python max(a, b)

\* a slip that measures the distance from the opening rank instead
InterpolateFromOpening(rank, opening, closing) ==
  RatMax(Rat(0, 1), RatMin(Rat(100, 1), Rat(100 * (rank - opening), closing - opening)))

\* prob = (closing - rank) / (closing - opening);
\* max(0.0, min(100.0, prob * 100))
Interpolate(rank, opening, closing) ==
  RatMax(Rat(0, 1), RatMin(Rat(100, 1), Rat(100 * (closing - rank), closing - opening)))

\* a slip that tests the closing rank before the opening rank
compute_probability_closing_first(rank, opening, closing) ==
  IF IsNa(opening) \/ IsNa(closing) THEN Rat(0, 1)
  ELSE IF opening.v = closing.v
    THEN (IF rank <= opening.v THEN Rat(100, 1) ELSE Rat(0, 1))
  ELSE IF rank >= closing.v THEN Rat(0, 1)
  ELSE IF rank <= opening.v THEN Rat(100, 1)
  ELSE Interpolate(rank, opening.v, closing.v)

compute_probability(rank, opening, closing) ==
  IF IsNa(opening) \/ IsNa(closing) THEN Rat(0, 1)
  ELSE IF opening.v = closing.v
    THEN (IF rank <= opening.v THEN Rat(100, 1) ELSE Rat(0, 1))
  ELSE IF rank <= opening.v THEN Rat(100, 1)
  ELSE IF rank >= closing.v THEN Rat(0, 1)
  ELSE Interpolate(rank, opening.v, closing.v)

\* round(prob, 2), in hundredths: nearest, a tie going to the even neighbour
Round2(p) ==
  LET x == 100 * p[1]
      q == x \div p[2]
      r == x % p[2]
  IN  IF 2 * r > p[2] THEN q + 1
      ELSE IF 2 * r = p[2] THEN (IF q % 2 = 0 THEN q ELSE q + 1)
      ELSE q

--------------------------------------------------------------------------
(* JSON values and Python's conversions of them *)

JStr(s) == [t |-> "str", s |-> s]
JInt(n) == [t |-> "int", n |-> n]
JFloat(n, d) == [t |-> "float", n |-> n, d |-> d]   \* the number n / d
JNull == [t |-> "null"]
Absent == [t |-> "absent"]

Digits == {"0", "1", "2", "3", "4", "5", "6", "7", "8", "9"}

DigitVal(ch) ==
  CASE ch = "0" -> 0 [] ch = "1" -> 1 [] ch = "2" -> 2 [] ch = "3" -> 3
    [] ch = "4" -> 4 [] ch = "5" -> 5 [] ch = "6" -> 6 [] ch = "7" -> 7
    [] ch = "8" -> 8 [] ch = "9" -> 9

RECURSIVE DigitsVal(_, _)
DigitsVal(s, acc) ==
  IF s = <<>> THEN acc ELSE DigitsVal(Tail(s), 10 * acc + DigitVal(Head(s)))

Ok(v) == [ok |-> TRUE, v |-> v]
Raise == [ok |-> FALSE, v |-> 0]

\* int(str): surrounding whitespace is dropped, then an optional sign and
\* at least one digit, nothing else; anything else raises ValueError
ParseInt(s) ==
  LET body == Strip(s)
      signed == body # <<>> /\ Head(body) \in {"+", "-"}
      digits == IF signed THEN Tail(body) ELSE body
  IN  IF digits = <<>> \/ \E i \in 1..Len(digits) : digits[i] \notin Digits
        THEN Raise
        ELSE IF signed /\ Head(body) = "-"
          THEN Ok(0 - DigitsVal(digits, 0))
          ELSE Ok(DigitsVal(digits, 0))

\* int(x): an int is itself, a float is truncated toward zero, a string is
\* parsed, None raises TypeError
PyInt(x) ==
  CASE x.t = "int" -> Ok(x.n)
    [] x.t = "float" ->
         Ok(IF x.n >= 0 THEN x.n \div x.d ELSE 0 - ((0 - x.n) \div x.d))
    [] x.t = "str" -> ParseInt(x.s)
    [] OTHER -> Raise

\* not str(x).strip(): str() of a number or of None has no blank rendering
StrIsBlank(x) == x.t = "str" /\ Strip(x.s) = <<>>

\* x.strip() for a JSON value: only a string has the method
PyStrip(x) == IF x.t = "str" THEN Ok(Strip(x.s)) ELSE Raise

--------------------------------------------------------------------------
(* POST /predict *)

DefaultTopN == 10

RequiredFields == <<"user_rank", "quota", "category", "gender", "round">>

\* data[field] when the key is there, Absent otherwise
Field(data, field) == data[field]

\* the loop over required_fields: the first field that is missing or blank
MissingField(data) ==
  LET bad == {i \in 1..Len(RequiredFields) :
                \/ Field(data, RequiredFields[i]) = Absent
                \/ StrIsBlank(Field(data, RequiredFields[i]))}
  IN  IF bad = {} THEN "" ELSE RequiredFields[CHOOSE i \in bad : \A j \in bad : i <= j]

\* the try block: the parsed inputs, or the exception that ended it
ParseInputs(data) ==
  LET user_rank == PyInt(Field(data, "user_rank"))
      quota == PyStrip(Field(data, "quota"))
      category == PyStrip(Field(data, "category"))
      gender == PyStrip(Field(data, "gender"))
      round_name == PyStrip(Field(data, "round"))
      top_n == IF Field(data, "top_n") = Absent
                 THEN Ok(DefaultTopN)
                 ELSE PyInt(Field(data, "top_n"))
  IN  IF ~user_rank.ok THEN [ok |-> FALSE, why |-> "user_rank is not an int"]
      ELSE IF user_rank.v <= 0
        THEN [ok |-> FALSE, why |-> "Rank must be positive integer"]
      ELSE IF ~(quota.ok /\ category.ok /\ gender.ok /\ round_name.ok)
        THEN [ok |-> FALSE, why |-> "filter is not a string"]
      ELSE IF ~top_n.ok THEN [ok |-> FALSE, why |-> "top_n is not an int"]
      ELSE [ok |-> TRUE, user_rank |-> user_rank.v, quota |-> quota.v,
            category |-> category.v, gender |-> gender.v,
            round_name |-> round_name.v, top_n |-> top_n.v]

\* a filter that forgets the seat gender
RowSelectedNoGender(row, quota, category, gender, round_name) ==
  /\ row.Quota = quota
  /\ row.Category = category
  /\ row.Round = round_name

\* the boolean mask of the filter, for one row
RowSelected(row, quota, category, gender, round_name) ==
  /\ row.Quota = quota
  /\ row.Category = category
  /\ row.SeatGender = gender
  /\ row.Round = round_name

\* df[mask]: the rows a predicate keeps, in the table's order
RECURSIVE SelectRows(_, _)
SelectRows(table, keep) ==
  IF table = <<>> THEN <<>>
  ELSE IF keep[1]
    THEN <<Head(table)>> \o SelectRows(Tail(table), Tail(keep))
    ELSE SelectRows(Tail(table), Tail(keep))

Subset(table, quota, category, gender, round_name) ==
  SelectRows(table,
    [i \in 1..Len(table) |-> RowSelected(table[i], quota, category, gender, round_name)])

\* the dict appended to matches for a row of positive probability
Match(row, prob) ==
  [Institute |-> Strip(row.Institute),
   Program |-> Strip(row.Program),
   OpeningRank |-> row.OpeningRank.v,
   ClosingRank |-> row.ClosingRank.v,
   Probability |-> Round2(prob)]

\* the loop over subset.iterrows()
RECURSIVE Matches(_, _)
Matches(subset, user_rank) ==
  IF subset = <<>> THEN <<>>
  ELSE LET row == Head(subset)
           rest == Matches(Tail(subset), user_rank)
       IN  IF IsNa(row.OpeningRank) \/ IsNa(row.ClosingRank) THEN rest
           ELSE LET prob == compute_probability(user_rank, row.OpeningRank, row.ClosingRank)
                IN  IF prob[1] > 0 THEN <<Match(row, prob)>> \o rest ELSE rest

\* a sort key that looks at the closing rank alone
KeyLeqClosingOnly(a, b) == a.ClosingRank <= b.ClosingRank

\* the order of the sort key (x["Probability"], x["Closing Rank"])
KeyLeq(a, b) ==
  \/ a.Probability < b.Probability
  \/ a.Probability = b.Probability /\ a.ClosingRank <= b.ClosingRank

\* list.sort: stable, ascending by key
RECURSIVE Insert(_, _)
Insert(sorted, x) ==
  IF sorted = <<>> THEN <<x>>
  ELSE IF KeyLeq(Head(sorted), x)
    THEN <<Head(sorted)>> \o Insert(Tail(sorted), x)
    ELSE <<x>> \o sorted

RECURSIVE SortMatches(_)
SortMatches(matches) ==
  IF matches = <<>> THEN <<>>
  ELSE Insert(SortMatches(SubSeq(matches, 1, Len(matches) - 1)), matches[Len(matches)])

\* matches[:top_n]: a negative stop counts from the end of the list
Slice(matches, top_n) ==
  LET stop == IF top_n >= 0
                THEN (IF top_n < Len(matches) THEN top_n ELSE Len(matches))
                ELSE (IF Len(matches) + top_n > 0 THEN Len(matches) + top_n ELSE 0)
  IN  SubSeq(matches, 1, stop)

\* Series.min() and Series.max(): NaN cells are skipped, NaN when none is left
ColumnMin(cells) ==
  LET present == {i \in 1..Len(cells) : ~IsNa(cells[i])}
  IN  IF present = {} THEN NaN
      ELSE cells[CHOOSE i \in present : \A j \in present : cells[i].v <= cells[j].v]

ColumnMax(cells) ==
  LET present == {i \in 1..Len(cells) : ~IsNa(cells[i])}
  IN  IF present = {} THEN NaN
      ELSE cells[CHOOSE i \in present : \A j \in present : cells[i].v >= cells[j].v]

NoMessage == [text |-> ""]

PredictError(text, detail) ==
  [status |-> 400, error |-> <<text, detail>>, predictions |-> <<>>,
   message |-> NoMessage]

\* an empty filter answered as "not found"
EmptyFilterNotFound ==
  [status |-> 404, error |-> <<"No colleges found for the selected filters", "">>,
   predictions |-> <<>>, message |-> NoMessage]

\* the return of the subset.empty branch
EmptyFilterResponse ==
  [status |-> 200, error |-> <<>>, predictions |-> <<>>,
   message |-> [text |-> "No colleges found for the selected filters"]]

\* the handler from the filter on, for inputs that passed the try block
PredictFiltered(table, in) ==
  LET subset == Subset(table, in.quota, in.category, in.gender, in.round_name)
      matches == SortMatches(Matches(subset, in.user_rank))
      top_matches == Slice(matches, in.top_n)
      scored == \E i \in 1..Len(subset) :
                  ~IsNa(subset[i].OpeningRank) /\ ~IsNa(subset[i].ClosingRank)
      ran == IF scored THEN {"validate", "filter", "compute_probability"}
                       ELSE {"validate", "filter"}
  IN  IF subset = <<>>
        THEN [resp |-> EmptyFilterResponse, reached |-> {"validate", "filter"}]
      ELSE IF top_matches = <<>>
        THEN [resp |->
                [status |-> 200, error |-> <<>>, predictions |-> <<>>,
                 message |->
                   [text |-> "No colleges found. Your rank is outside range.",
                    user_rank |-> in.user_rank,
                    max_open |-> ColumnMax([i \in 1..Len(subset) |-> subset[i].OpeningRank]),
                    min_close |-> ColumnMin([i \in 1..Len(subset) |-> subset[i].ClosingRank])]],
              reached |-> ran]
      ELSE [resp |->
              [status |-> 200, error |-> <<>>, predictions |-> top_matches,
               message |-> NoMessage],
            reached |-> ran]

\* predict(): the response, and the stages that ran
PredictHandler(table, is_json, data) ==
  IF ~is_json
    THEN [resp |-> PredictError("JSON body required", ""), reached |-> {}]
  ELSE IF MissingField(data) # ""
    THEN [resp |-> PredictError("Missing required field", MissingField(data)),
          reached |-> {"validate"}]
  ELSE LET in == ParseInputs(data)
       IN  IF ~in.ok
             THEN [resp |-> PredictError("Invalid input", in.why),
                   reached |-> {"validate"}]
             ELSE PredictFiltered(table, in)

--------------------------------------------------------------------------
(* GET /college-info *)

\* re.compile(pat): of the characters of the model, "(" opens a group that
\* is never closed, which raises re.error
RegexCompiles(pat) == \A j \in 1..Len(pat) : pat[j] # "("

\* one pattern character against one character of the text, under
\* re.IGNORECASE: "." stands for any character, the others for themselves
AtomMatches(p, ch) == p = "." \/ Lower(p) = Lower(ch)

\* Series.str.contains(pat, case=False, na=False) for one cell: pat is a
\* regular expression (regex=True is the default), searched anywhere
Contains(text, pat) ==
  \E i \in 0..(Len(text) - Len(pat)) :
    \A j \in 1..Len(pat) : AtomMatches(pat[j], text[i + j])

\* args.get(key, "").strip()
Arg(x) == IF x = Absent THEN <<>> ELSE Strip(x.s)

LookupRank(cell) ==
  IF IsNa(cell) THEN [available |-> FALSE, v |-> 0]
                ELSE [available |-> TRUE, v |-> cell.v]

LookupResult(row) ==
  [Institute |-> Strip(row.Institute),
   Program |-> Strip(row.Program),
   Quota |-> Strip(row.Quota),
   Category |-> Strip(row.Category),
   OpeningRank |-> LookupRank(row.OpeningRank),
   ClosingRank |-> LookupRank(row.ClosingRank)]

\* college_info(): the response
CollegeInfoHandler(table, name, program) ==
  LET name_param == Arg(name)
      program_param == Arg(program)
      mask == [i \in 1..Len(table) |->
                 /\ Contains(table[i].Institute, name_param)
                 /\ (program_param # <<>> =>
                       Contains(table[i].Program, program_param))]
      filtered == SelectRows(table, mask)
      results == [i \in 1..Len(filtered) |-> LookupResult(filtered[i])]
  IN  IF name_param = <<>>
        THEN [status |-> 400, error |-> <<"Query parameter 'name' is required.">>,
              count |-> 0, results |-> <<>>, message |-> NoMessage]
      ELSE IF ~RegexCompiles(name_param)
              \/ (program_param # <<>> /\ ~RegexCompiles(program_param))
        THEN [status |-> 500, error |-> <<"Processing error">>,
              count |-> 0, results |-> <<>>, message |-> NoMessage]
      ELSE [status |-> 200, error |-> <<>>,
            count |-> Len(results), results |-> results,
            message |-> IF results # <<>>
                          THEN [text |-> "Found matches", n |-> Len(results)]
                          ELSE [text |-> "No colleges found"]]

--------------------------------------------------------------------------
(* The table loaded at import *)

\* pd.to_numeric(column, errors='coerce') for one cell of whole-number
\* text: the number, or NaN for text that is no number
ToNumeric(text) ==
  LET parsed == ParseInt(text)
  IN  IF parsed.ok THEN Num(parsed.v) ELSE NaN

\* one row of the CSV after the two rank columns are converted
LoadRow(raw) ==
  [raw EXCEPT !.OpeningRank = ToNumeric(raw.OpeningRank),
              !.ClosingRank = ToNumeric(raw.ClosingRank)]

\* rows a counselling CSV may hold
CsvRows ==
  <<
    [Institute |-> <<"I", "I", "T", " ", "A">>, Program |-> <<"B", "T">>, Quota |-> <<"H", "S">>, Category |-> <<"G", "E", "N">>, SeatGender |-> <<"G", "N">>, Round |-> <<"1">>, OpeningRank |-> <<"1", "0", "0">>, ClosingRank |-> <<"5", "0", "0">>],
    [Institute |-> <<"I", "I", "T", " ", "B">>, Program |-> <<"B", "A">>, Quota |-> <<"H", "S">>, Category |-> <<"G", "E", "N">>, SeatGender |-> <<"G", "N">>, Round |-> <<"1">>, OpeningRank |-> <<"3", "0", "0">>, ClosingRank |-> <<"7", "0", "0">>],
    [Institute |-> <<"B", "I", "T">>, Program |-> <<"B", "T">>, Quota |-> <<"H", "S">>, Category |-> <<"G", "E", "N">>, SeatGender |-> <<"G", "N">>, Round |-> <<"1">>, OpeningRank |-> <<"1">>, ClosingRank |-> <<"3", "0", "0", "0", "1">>],
    [Institute |-> <<"A", ".", "B">>, Program |-> <<"B", "T">>, Quota |-> <<"H", "S">>, Category |-> <<"G", "E", "N">>, SeatGender |-> <<"G", "N">>, Round |-> <<"1">>, OpeningRank |-> <<"4", "0", "0">>, ClosingRank |-> <<"4", "0", "0">>],
    [Institute |-> <<"I", "I", "T", " ", "A">>, Program |-> <<"B", "A">>, Quota |-> <<"H", "S">>, Category |-> <<"G", "E", "N">>, SeatGender |-> <<"F">>, Round |-> <<"1">>, OpeningRank |-> <<"1", "0", "0">>, ClosingRank |-> <<"5", "0", "0">>],
    [Institute |-> <<"T", "I", "B">>, Program |-> <<"B", "T">>, Quota |-> <<"O", "S">>, Category |-> <<"G", "E", "N">>, SeatGender |-> <<"G", "N">>, Round |-> <<"1">>, OpeningRank |-> <<"1", "0", "0">>, ClosingRank |-> <<"-", "-">>],
    [Institute |-> <<"A", "B", "B", "A", " ">>, Program |-> <<"A", "T">>, Quota |-> <<"H", "S">>, Category |-> <<"G", "E", "N">>, SeatGender |-> <<"G", "N">>, Round |-> <<"1">>, OpeningRank |-> <<"5", "0", "0">>, ClosingRank |-> <<"1", "0", "0">>],
    [Institute |-> <<"I", "T", " ", "A">>, Program |-> <<"A", "T">>, Quota |-> <<"H", "S">>, Category |-> <<"G", "E", "N">>, SeatGender |-> <<"G", "N">>, Round |-> <<"1">>, OpeningRank |-> <<"1", "0", "0">>, ClosingRank |-> <<"5", "0", "0">>]
  >>

RECURSIVE Reverse(_)
Reverse(s) == IF s = <<>> THEN <<>> ELSE Reverse(Tail(s)) \o <<Head(s)>>

\* the rows of CsvRows at the indices of picked, in file order
RECURSIVE Pick(_, _)
Pick(picked, from) ==
  IF from > Len(CsvRows) THEN <<>>
  ELSE IF from \in picked
    THEN <<LoadRow(CsvRows[from])>> \o Pick(picked, from + 1)
    ELSE Pick(picked, from + 1)

\* the tables the model loads: up to MaxRows of the rows, in either order
Tables ==
  LET chosen == {P \in SUBSET (1..Len(CsvRows)) : Cardinality(P) \in 1..MaxRows}
  IN  {Pick(P, 1) : P \in chosen} \cup {Reverse(Pick(P, 1)) : P \in chosen}

--------------------------------------------------------------------------
(* The requests the model sends *)

RankValues ==
  {Absent,
   JNull,
   JInt(0),
   JInt(-5),
   JInt(50),
   JInt(150),
   JInt(300),
   JInt(600),
   JInt(30000),
   JFloat(601, 2),
   JFloat(1, 2),
   JStr(<<"3", "0", "0">>),
   JStr(<<" ", "5", "0", " ">>),
   JStr(<<"a", "b", "c">>),
   JStr(<<"3", ".", "7">>),
   JStr(<<" ", " ">>)}

TopNValues ==
  {Absent,
   JNull,
   JStr(<<"2">>),
   JStr(<<"x">>),
   JFloat(3, 2)}
  \cup {JInt(n) : n \in (0 - 2)..MaxTopN}

\* <<quota, category, gender, round>>
MainFilters ==
  {<<JStr(<<"H", "S">>), JStr(<<"G", "E", "N">>), JStr(<<"G", "N">>), JStr(<<"1">>)>>,
   <<JStr(<<" ", "H", "S", " ">>), JStr(<<"G", "E", "N", " ">>), JStr(<<" ", "G", "N">>), JStr(<<"1">>)>>,
   <<JStr(<<"O", "S">>), JStr(<<"G", "E", "N">>), JStr(<<"G", "N">>), JStr(<<"1">>)>>}

EdgeFilters ==
  {<<JStr(<<"h", "s">>), JStr(<<"G", "E", "N">>), JStr(<<"G", "N">>), JStr(<<"1">>)>>,
   <<JStr(<<"X", "X">>), JStr(<<"G", "E", "N">>), JStr(<<"G", "N">>), JStr(<<"1">>)>>,
   <<JStr(<<" ", " ">>), JStr(<<"G", "E", "N">>), JStr(<<"G", "N">>), JStr(<<"1">>)>>,
   <<Absent, JStr(<<"G", "E", "N">>), JStr(<<"G", "N">>), JStr(<<"1">>)>>,
   <<JInt(1), JStr(<<"G", "E", "N">>), JStr(<<"G", "N">>), JStr(<<"1">>)>>,
   <<JNull, JStr(<<"G", "E", "N">>), JStr(<<"G", "N">>), JStr(<<"1">>)>>,
   <<JStr(<<"H", "S">>), JStr(<<"O", "B", "C">>), JStr(<<"G", "N">>), JStr(<<"1">>)>>,
   <<JStr(<<"H", "S">>), JStr(<<>>), JStr(<<"G", "N">>), JStr(<<"1">>)>>,
   <<JStr(<<"H", "S">>), Absent, JStr(<<"G", "N">>), JStr(<<"1">>)>>,
   <<JStr(<<"H", "S">>), JStr(<<"G", "E", "N">>), JStr(<<"F">>), JStr(<<"1">>)>>,
   <<JStr(<<"H", "S">>), JStr(<<"G", "E", "N">>), JStr(<<" ">>), JStr(<<"1">>)>>,
   <<JStr(<<"H", "S">>), JStr(<<"G", "E", "N">>), Absent, JStr(<<"1">>)>>,
   <<JStr(<<"H", "S">>), JStr(<<"G", "E", "N">>), JStr(<<"G", "N">>), JStr(<<"2">>)>>,
   <<JStr(<<"H", "S">>), JStr(<<"G", "E", "N">>), JStr(<<"G", "N">>), Absent>>,
   <<JStr(<<"H", "S">>), JStr(<<"G", "E", "N">>), JStr(<<"G", "N">>), JInt(1)>>}

Body(user_rank, f, top_n) ==
  [user_rank |-> user_rank, quota |-> f[1], category |-> f[2],
   gender |-> f[3], round |-> f[4], top_n |-> top_n]

PredictBodies ==
  {Body(r, f, n) : r \in RankValues, f \in MainFilters, n \in TopNValues}
  \cup {Body(r, f, n) : r \in {JInt(50), JInt(300)}, f \in EdgeFilters,
                        n \in {Absent, JInt(1)}}

\* what the model keeps of a body that is not JSON
NoBody == Body(Absent, <<Absent, Absent, Absent, Absent>>, Absent)

NameValues ==
  {Absent,
   JStr(<<>>),
   JStr(<<" ">>),
   JStr(<<"i", "i", "t">>),
   JStr(<<"I", "I", "T">>),
   JStr(<<" ", "i", "i", "t", " ">>),
   JStr(<<"a">>),
   JStr(<<".">>),
   JStr(<<"a", ".", "b">>),
   JStr(<<"I", ".", "T">>),
   JStr(<<"(">>),
   JStr(<<"i", "t", " ", "a">>),
   JStr(<<"b", " ">>)}

ProgramValues ==
  {Absent,
   JStr(<<>>),
   JStr(<<"b", "t">>),
   JStr(<<"T">>),
   JStr(<<".">>),
   JStr(<<"(">>)}

--------------------------------------------------------------------------
(* The service *)

Idle == [op |-> "idle"]
NoResponse == [status |-> 0]

Init ==
  /\ df \in Tables
  /\ request = Idle
  /\ response = NoResponse
  /\ reached = {}

\* GET /
Index ==
  /\ request = Idle
  /\ request' = [op |-> "index"]
  /\ response' = [status |-> 200, page |-> "index.html"]
  /\ reached' = {}
  /\ UNCHANGED df

\* a handler that keeps the filtered frame in the module-level name
PredictRebindsDf ==
  /\ request = Idle
  /\ \E is_json \in BOOLEAN :
       \E data \in (IF is_json THEN PredictBodies ELSE {NoBody}) :
         LET h == PredictHandler(df, is_json, data)
             in == ParseInputs(data)
         IN  /\ request' = [op |-> "predict", is_json |-> is_json, data |-> data]
             /\ response' = h.resp
             /\ reached' = h.reached
             /\ df' = IF "filter" \in h.reached
                        THEN Subset(df, in.quota, in.category, in.gender, in.round_name)
                        ELSE df

\* POST /predict
Predict ==
  /\ request = Idle
  /\ \E is_json \in BOOLEAN :
       \E data \in (IF is_json THEN PredictBodies ELSE {NoBody}) :
         LET h == PredictHandler(df, is_json, data)
         IN  /\ request' = [op |-> "predict", is_json |-> is_json, data |-> data]
             /\ response' = h.resp
             /\ reached' = h.reached
  /\ UNCHANGED df

\* GET /college-info
CollegeInfo ==
  /\ request = Idle
  /\ \E name \in NameValues, program \in ProgramValues :
       /\ request' = [op |-> "college_info", name |-> name, program |-> program]
       /\ response' = CollegeInfoHandler(df, name, program)
  /\ reached' = {}
  /\ UNCHANGED df

\* the response is sent and the request context is dropped
EndRequest ==
  /\ request # Idle
  /\ request' = Idle
  /\ response' = NoResponse
  /\ reached' = {}
  /\ UNCHANGED df

Next == Index \/ Predict \/ CollegeInfo \/ EndRequest

Spec == Init /\ [][Next]_vars

--------------------------------------------------------------------------
(* compute_probability on its own *)

RankCells == {NaN} \cup {Num(x) : x \in 0..MaxRank}

InitCP ==
  /\ df = <<>>
  /\ request \in {[op |-> "compute_probability", rank |-> r, opening |-> o, closing |-> c] :
                    r \in 1..(MaxRank + 1), o \in RankCells, c \in RankCells}
  /\ response = NoResponse
  /\ reached = {}

CallComputeProbability ==
  /\ response = NoResponse
  /\ response' = [status |-> 1,
                  value |-> compute_probability(request.rank, request.opening, request.closing)]
  /\ reached' = {"compute_probability"}
  /\ UNCHANGED <<df, request>>

NextCP == CallComputeProbability

SpecCP == InitCP /\ [][NextCP]_vars

--------------------------------------------------------------------------
(* What the properties below read off a state *)

IsPredict == request.op = "predict"
IsLookup == request.op = "college_info"
Answered == IsPredict /\ response.status = 200

\* a JSON value that is no positive integer
NotPositiveInteger(x) ==
  \/ x = Absent
  \/ x.t = "null"
  \/ x.t = "int" /\ x.n <= 0
  \/ x.t = "float" /\ (x.n % x.d # 0 \/ x.n <= 0)
  \/ x.t = "str" /\ (~ParseInt(x.s).ok \/ ParseInt(x.s).v <= 0)

\* a filter value that is missing, or blank once trimmed
MissingOrBlank(x) == x = Absent \/ (x.t = "str" /\ Strip(x.s) = <<>>)

\* the row equals the request's trimmed filters on all four fields
RowEqualsFilters(row, data) ==
  /\ row.Quota = Strip(data.quota.s)
  /\ row.Category = Strip(data.category.s)
  /\ row.SeatGender = Strip(data.gender.s)
  /\ row.Round = Strip(data.round.s)

\* the row is one predict has to return for this request
RowQualifies(row, data) ==
  /\ RowEqualsFilters(row, data)
  /\ ~row.OpeningRank.na
  /\ ~row.ClosingRank.na
  /\ compute_probability(ParseInputs(data).user_rank, row.OpeningRank, row.ClosingRank)[1] > 0

\* the record predict exposes for a qualifying row
Exposed(row, data) ==
  Match(row, compute_probability(ParseInputs(data).user_rank, row.OpeningRank, row.ClosingRank))

\* pat occurs in text as a substring, letter case aside
LiteralContains(text, pat) ==
  \E i \in 0..(Len(text) - Len(pat)) :
    \A j \in 1..Len(pat) : Lower(pat[j]) = Lower(text[i + j])

\* the piecewise function of the specification, on present or absent bounds
ReferenceProbability(rank, opening, closing) ==
  IF opening.na \/ closing.na THEN Rat(0, 1)
  ELSE IF opening.v = closing.v
    THEN (IF rank <= opening.v THEN Rat(100, 1) ELSE Rat(0, 1))
  ELSE IF rank <= opening.v THEN Rat(100, 1)
  ELSE IF rank >= closing.v THEN Rat(0, 1)
  ELSE Rat(100 * (closing.v - rank), closing.v - opening.v)

--------------------------------------------------------------------------
(* The claims *)

\* C1: predict returns at most topN results when topN > 0 and none when
\* topN <= 0. Violated by the code: matches[:top_n] with a negative top_n
\* drops that many results from the end and returns the rest.
C1_AtMostTopN ==
  Answered =>
    LET top_n == ParseInputs(request.data).top_n
    IN  IF top_n > 0
          THEN Len(response.predictions) <= top_n
          ELSE response.predictions = <<>>

\* C2: every probability predict exposes (rounded to 2 decimals, here in
\* hundredths) is greater than 0 and at most 100. Violated by the code: the
\* test prob > 0 is made before rounding, and a rank just below the closing
\* rank of a band wider than 20000 rounds to 0.0.
C2_ExposedProbabilityPositive ==
  Answered =>
    \A k \in 1..Len(response.predictions) :
      /\ response.predictions[k].Probability > 0
      /\ response.predictions[k].Probability <= 10000

C4_EqualsReference ==
  response.status = 1 =>
    /\ RatEq(response.value,
             ReferenceProbability(request.rank, request.opening, request.closing))
    /\ RatLeq(Rat(0, 1), response.value)
    /\ RatLeq(response.value, Rat(100, 1))

\* C4's case: a rank strictly inside the band, where the result is
\* interpolated
C4_Witness ==
  /\ response.status = 1
  /\ ~request.opening.na /\ ~request.closing.na
  /\ request.opening.v < request.rank /\ request.rank < request.closing.v
  /\ RatLt(Rat(0, 1), response.value) /\ RatLt(response.value, Rat(100, 1))

\* C5: for opening o < closing c, compute_probability is 100 at rank o, 0
\* at rank c, and non-increasing in the rank over [o, c].
C5_MonotoneOverBand ==
  (/\ response.status = 1
   /\ ~request.opening.na /\ ~request.closing.na
   /\ request.opening.v < request.closing.v
   /\ request.opening.v <= request.rank /\ request.rank <= request.closing.v) =>
    /\ request.rank = request.opening.v => RatEq(response.value, Rat(100, 1))
    /\ request.rank = request.closing.v => RatEq(response.value, Rat(0, 1))
    /\ \A r2 \in request.rank..request.closing.v :
         RatLeq(compute_probability(r2, request.opening, request.closing),
                response.value)

\* C5's case: a rank strictly inside a band of at least three ranks
C5_Witness ==
  /\ response.status = 1
  /\ ~request.opening.na /\ ~request.closing.na
  /\ request.opening.v < request.rank
  /\ request.rank + 1 < request.closing.v

\* C6: predict answers 400, with an error and no predictions, whenever
\* user_rank is missing or no positive integer, or a filter is missing or
\* blank, and such a request reaches neither the filter nor
\* compute_probability. Violated by the code: int() truncates a
\* non-integral JSON number, so user_rank 300.5 is served as rank 300.
C6_InvalidRejected ==
  (/\ IsPredict
   /\ request.is_json
   /\ \/ NotPositiveInteger(request.data.user_rank)
      \/ MissingOrBlank(request.data.quota)
      \/ MissingOrBlank(request.data.category)
      \/ MissingOrBlank(request.data.gender)
      \/ MissingOrBlank(request.data.round)) =>
    /\ response.status = 400
    /\ response.error # <<>>
    /\ response.predictions = <<>>
    /\ reached \cap {"filter", "compute_probability"} = {}

\* C7: every returned record is the exposed form of a table row that equals
\* the request's trimmed filters on all four fields, has both ranks and a
\* probability > 0, no such row is returned more often than it occurs, and
\* when topN is at least the number of such rows each is returned exactly
\* as often as it occurs.
C7_ExactSelection ==
  Answered =>
    LET data == request.data
        P == response.predictions
        Q == {i \in 1..Len(df) : RowQualifies(df[i], data)}
        Returned(m) == Cardinality({k \in 1..Len(P) : P[k] = m})
        Qualifying(m) == Cardinality({i \in Q : Exposed(df[i], data) = m})
    IN  /\ \A k \in 1..Len(P) :
             Qualifying(P[k]) >= 1 /\ Returned(P[k]) <= Qualifying(P[k])
        /\ ParseInputs(data).top_n >= Cardinality(Q) =>
             \A i \in Q :
               Returned(Exposed(df[i], data)) = Qualifying(Exposed(df[i], data))

\* C7's case: two rows returned while another row of the table is left out,
\* with topN large enough for all that qualify
C7_Witness ==
  /\ Answered
  /\ Len(response.predictions) >= 2
  /\ \E i \in 1..Len(df) : ~RowQualifies(df[i], request.data)
  /\ ParseInputs(request.data).top_n >= Len(response.predictions)
  /\ ParseInputs(request.data).top_n >=
       Cardinality({i \in 1..Len(df) : RowQualifies(df[i], request.data)})

\* C8: for a non-empty name, the lookup returns all and only the rows whose
\* institute contains the name as a case-insensitive substring and, when a
\* program is given, whose program contains it too; count is the number of
\* results; a missing or blank name is answered 400. Violated by the code:
\* str.contains reads the name as a regular expression, so "." matches any
\* character and "(" ends in a 500.
C8_LookupBySubstring ==
  IsLookup =>
    LET name == Arg(request.name)
        program == Arg(request.program)
        expected == SelectRows(df,
                      [i \in 1..Len(df) |->
                         /\ LiteralContains(df[i].Institute, name)
                         /\ (program # <<>> => LiteralContains(df[i].Program, program))])
    IN  IF name = <<>>
          THEN response.status = 400 /\ response.error # <<>>
          ELSE /\ response.status = 200
               /\ response.count = Len(expected)
               /\ Len(response.results) = Len(expected)
               /\ \A i \in 1..Len(expected) :
                    response.results[i] = LookupResult(expected[i])

\* C9: a validated predict request whose filters match no row is answered
\* 200 with an empty predictions list and a message, never with an error.
C9_EmptyFilterIsSuccess ==
  (/\ IsPredict
   /\ request.is_json
   /\ MissingField(request.data) = ""
   /\ ParseInputs(request.data).ok
   /\ \A i \in 1..Len(df) : ~RowEqualsFilters(df[i], request.data)) =>
    /\ response.status = 200
    /\ response.error = <<>>
    /\ response.predictions = <<>>
    /\ response.message.text # ""

\* C9's case: a validated request that no row of the table matches
C9_Witness ==
  /\ IsPredict
  /\ request.is_json
  /\ MissingField(request.data) = ""
  /\ ParseInputs(request.data).ok
  /\ \A i \in 1..Len(df) : ~RowEqualsFilters(df[i], request.data)
  /\ response.message.text = "No colleges found for the selected filters"

==========================================================================
